---- MODULE Spec2Model ----
(***************************************************************************)
(* Window visibility / occlusion calculator of time_guardian               *)
(* (src/time_guardian/visibility.py): create_window_bitmap paints window   *)
(* ids into a uint16 grid back to front, add_visibility_pct counts the     *)
(* cells of each id and writes visible_pixels / visible_percent into the   *)
(* window records.                                                         *)
(***************************************************************************)
EXTENDS Integers, Sequences, FiniteSets, TLC

\* ------------------------------------------------------------------------
\* Bounds of the model
\* ------------------------------------------------------------------------
MaxWindows == 2
MaxOff == 1
MaxPos == 1
MaxSize == 2
MaxLayer == 1
MaxStack == 1

\* np.uint16 holds values modulo 2^16
Uint16Mod == 65536

\* ------------------------------------------------------------------------
\* Inputs
\* ------------------------------------------------------------------------
\* A key the dict does not hold yet: -1 for visible_pixels, and the
\* fraction -1/1 for visible_percent (no call writes a negative value)
Absent == -1
AbsentPercent == << Absent, 1 >>

Disp(x, y, w, h) == [x |-> x, y |-> y, width |-> w, height |-> h]

\* Display lists: none, one display, two adjacent displays, two displays
\* with a gap between them, a display whose origin is not (0, 0), and
\* displays of zero width or zero height.
DisplayLists ==
    { << >>,
      << Disp(0, 0, 3, 3) >>,
      << Disp(0, 0, 2, 2), Disp(2, 0, 2, 2) >>,
      << Disp(0, 0, 1, 2), Disp(2, 0, 1, 2) >>,
      << Disp(1, 1, 2, 2) >>,
      << Disp(0, 0, 0, 3) >>,
      << Disp(0, 0, 3, 0) >> }

\* 65537 does not fit a uint16 cell
WindowIds == {1, 2, 65537}

\* Positions left of the origin are allowed; sizes are non-negative
XPositions == (0 - MaxOff)..MaxPos
YPositions == 0..MaxPos
Sizes == { << 0, MaxSize >>, << MaxSize, 0 >>, << 1, MaxSize >>, << MaxSize, MaxSize >> }

Window ==
    { [window_id |-> id, x |-> x, y |-> y, width |-> sz[1], height |-> sz[2],
       layer |-> l, stack_order |-> s,
       visible_pixels |-> Absent, visible_percent |-> AbsentPercent] :
         id \in WindowIds, x \in XPositions, y \in YPositions, sz \in Sizes,
         l \in 0..MaxLayer, s \in 0..MaxStack }

UniqueIds(ws) ==
    \A i, j \in 1..Len(ws) : i # j => ws[i].window_id # ws[j].window_id

WindowLists ==
    { ws \in UNION { [1..n -> Window] : n \in 0..MaxWindows } : UniqueIds(ws) }

\* ------------------------------------------------------------------------
\* Helpers
\* ------------------------------------------------------------------------
Min2(a, b) == IF a < b THEN a ELSE b
Max2(a, b) == IF a > b THEN a ELSE b

SetMin(S) == CHOOSE m \in S : \A n \in S : m <= n
SetMax(S) == CHOOSE m \in S : \A n \in S : m >= n

RECURSIVE GCD(_, _)
GCD(a, b) == IF b = 0 THEN a ELSE GCD(b, a % b)

\* (count / size) * 100 as an exact fraction in lowest terms
Percent(count, size) ==
    IF count = 0 THEN << 0, 1 >>
    ELSE LET g == GCD(100 * count, size)
         IN  << (100 * count) \div g, size \div g >>

\* ------------------------------------------------------------------------
\* create_window_bitmap
\* ------------------------------------------------------------------------
MinX(ds) == SetMin({ ds[i].x : i \in 1..Len(ds) })
MinY(ds) == SetMin({ ds[i].y : i \in 1..Len(ds) })
MaxX(ds) == SetMax({ ds[i].x + ds[i].width : i \in 1..Len(ds) })
MaxY(ds) == SetMax({ ds[i].y + ds[i].height : i \in 1..Len(ds) })

CanvasWidth(ds) == MaxX(ds) - MinX(ds)
CanvasHeight(ds) == MaxY(ds) - MinY(ds)

\* np.zeros((height, width), dtype=np.uint16)
ZeroBitmap(ds) ==
    [c \in (0..(CanvasHeight(ds) - 1)) \X (0..(CanvasWidth(ds) - 1)) |-> 0]

\* sorted(windows, key=(layer, stack_order)): a stable sort
KeyLeq(a, b) ==
    \/ a.layer < b.layer
    \/ a.layer = b.layer /\ a.stack_order <= b.stack_order

RECURSIVE Insert(_, _)
Insert(sorted, w) ==
    IF sorted = << >> THEN << w >>
    ELSE IF KeyLeq(sorted[Len(sorted)], w) THEN Append(sorted, w)
    ELSE Append(Insert(SubSeq(sorted, 1, Len(sorted) - 1), w), sorted[Len(sorted)])

RECURSIVE SortWindows(_)
SortWindows(ws) ==
    IF ws = << >> THEN << >>
    ELSE Insert(SortWindows(SubSeq(ws, 1, Len(ws) - 1)), ws[Len(ws)])

\* A Python slice bound i on an axis of length n: a negative bound counts
\* from the end of the axis, and the result is clamped to 0..n.
SliceIndex(i, n) == IF i < 0 THEN Max2(i + n, 0) ELSE Min2(i, n)

SliceRange(lo, hi, n) == SliceIndex(lo, n)..(SliceIndex(hi, n) - 1)

\* The cells bitmap[y1:y2, x1:x2] selects
PaintedCells(w, ds) ==
    LET x1 == w.x - MinX(ds)
        y1 == w.y - MinY(ds)
        x2 == x1 + w.width
        y2 == y1 + w.height
    IN  SliceRange(y1, y2, CanvasHeight(ds)) \X SliceRange(x1, x2, CanvasWidth(ds))

\* The value a uint16 cell holds after an id is assigned to it
StoredId(id) == id % Uint16Mod

PaintWindow(bm, w, ds) ==
    [c \in DOMAIN bm |->
        IF c \in PaintedCells(w, ds) THEN StoredId(w.window_id) ELSE bm[c]]

RECURSIVE PaintAll(_, _, _)
PaintAll(bm, sorted, ds) ==
    IF sorted = << >> THEN bm
    ELSE PaintAll(PaintWindow(bm, Head(sorted), ds), Tail(sorted), ds)

WindowBitmap(ws, ds) == PaintAll(ZeroBitmap(ds), SortWindows(ws), ds)

\* ------------------------------------------------------------------------
\* add_visibility_pct
\* ------------------------------------------------------------------------
\* counts[window_ids] with window_ids = np.nonzero(counts)[0]: the number
\* of cells of every value the bitmap holds
CountIds(bm) ==
    LET present == { bm[c] : c \in DOMAIN bm }
    IN  [v \in present |-> Cardinality({ c \in DOMAIN bm : bm[c] = v })]

WindowArea(w) == w.width * w.height

\* The size of the window taken from its width alone
UpdateWindowByWidth(w, cnt) ==
    IF w.window_id \in DOMAIN cnt
    THEN [w EXCEPT !.visible_pixels = cnt[w.window_id],
                   !.visible_percent =
                       IF w.width > 0
                       THEN Percent(cnt[w.window_id], w.width)
                       ELSE << 0, 1 >>]
    ELSE [w EXCEPT !.visible_pixels = 0, !.visible_percent = << 0, 1 >>]

\* The count added to the pixels the record already holds, without the
\* reset to 0
UpdateWindowAccumulate(w, cnt) ==
    LET old == IF w.visible_pixels = Absent THEN 0 ELSE w.visible_pixels
        px == old + (IF w.window_id \in DOMAIN cnt THEN cnt[w.window_id] ELSE 0)
    IN  [w EXCEPT !.visible_pixels = px,
                  !.visible_percent =
                      IF WindowArea(w) > 0 THEN Percent(px, WindowArea(w))
                      ELSE << 0, 1 >>]

\* lines 166-188: every record gets visible_pixels = 0 and
\* visible_percent = 0, then the ids counted in the bitmap get their count
\* and (count / size) * 100, which stays 0 where the size is 0
UpdateWindow(w, cnt) ==
    IF w.window_id \in DOMAIN cnt
    THEN [w EXCEPT !.visible_pixels = cnt[w.window_id],
                   !.visible_percent =
                       IF WindowArea(w) > 0
                       THEN Percent(cnt[w.window_id], WindowArea(w))
                       ELSE << 0, 1 >>]
    ELSE [w EXCEPT !.visible_pixels = 0, !.visible_percent = << 0, 1 >>]

\* ------------------------------------------------------------------------
\* State
\* ------------------------------------------------------------------------
\* add_visibility_pct: its arguments and locals
VARIABLES displays, windows, bitmap, counts, pc, err
\* the call: save_path, the records as they were after a first call, the
\* layer filter of the caller and the caller's unfiltered window list
VARIABLES save_path, first, layer_filter, all_windows
\* Storage and Report: the files of analysis_dir, the report file
VARIABLES files, report, rpc
\* the track command
VARIABLES duration, interval, outcome, exit_status, stdout, tpc
\* start_tracking: the clock, the locals the job closes over, the job
\* registered with the scheduler, the frame numbers handed to storage, the
\* number of job runs that ran to their end, and the count logged at exit
VARIABLES clock, end_time, frame_no, previous_screenshot, jobs, next_run
VARIABLES stored, completed, logged, wake, cpc, cres

visVars == << displays, windows, bitmap, counts, pc, err >>
callVars == << save_path, first, layer_filter, all_windows >>
reportVars == << files, report, rpc >>
trackVars == << duration, interval, outcome, exit_status, stdout, tpc >>
captureVars ==
    << clock, end_time, frame_no, previous_screenshot, jobs, next_run,
       stored, completed, logged, wake, cpc, cres >>

vars == << visVars, callVars, reportVars, trackVars, captureVars >>

NoBitmap == "none"
NoCounts == "none"
NoPath == "none"
\* first: whether an earlier call has ended, and the records it left
NoFirst == [called |-> FALSE, windows |-> << >>]
\* layer_filter: whether a set of layers to include is given, and the set
NoFilter == [given |-> FALSE, layers |-> {}]
\* report: the output file of generate_report (not written yet)
NoReport ==
    [exists |-> FALSE, activities |-> {}, no_activities |-> FALSE, summary |-> FALSE]
NoValue == "none"

\* No call of add_visibility_pct is in progress
VisIdle ==
    /\ displays = << >>
    /\ windows = << >>
    /\ bitmap = NoBitmap
    /\ counts = NoCounts
    /\ pc = "idle"
    /\ err = "none"
    /\ save_path = NoPath
    /\ first = NoFirst
    /\ layer_filter = NoFilter
    /\ all_windows = << >>

\* Storage and Report are not in use
ReportIdle ==
    /\ files = << >>
    /\ report = NoReport
    /\ rpc = "idle"

\* The track command is not in use
TrackIdle ==
    /\ duration = NoValue
    /\ interval = NoValue
    /\ outcome = NoValue
    /\ exit_status = NoValue
    /\ stdout = << >>
    /\ tpc = "idle"

\* float("inf"), previous_screenshot = None, nothing logged, no time set
Infinity == -1
NoScreenshot == -1
NoCount == -1
NoTime == -1

\* start_tracking is not in use
CaptureIdle ==
    /\ clock = 0
    /\ end_time = Infinity
    /\ frame_no = 0
    /\ previous_screenshot = NoScreenshot
    /\ jobs = {}
    /\ next_run = NoTime
    /\ stored = << >>
    /\ completed = 0
    /\ logged = NoCount
    /\ wake = NoTime
    /\ cpc = "idle"
    /\ cres = "none"

\* A call add_visibility_pct(windows, displays)
Init ==
    /\ displays \in DisplayLists
    /\ windows \in WindowLists
    /\ bitmap = NoBitmap
    /\ counts = NoCounts
    /\ pc = "create_bitmap"
    /\ err = "none"
    /\ save_path = NoPath
    /\ first = NoFirst
    /\ layer_filter = NoFilter
    /\ all_windows = windows
    /\ ReportIdle
    /\ TrackIdle
    /\ CaptureIdle

Overflows(ws) == \E i \in 1..Len(ws) : ws[i].window_id >= Uint16Mod

\* An empty display list taken as a canvas without cells
CreateWindowBitmapNoCheck ==
    /\ pc = "create_bitmap"
    /\ bitmap' = IF displays = << >> THEN << >> ELSE WindowBitmap(windows, displays)
    /\ pc' = "count"
    /\ UNCHANGED << displays, windows, counts, err >>
    /\ UNCHANGED << callVars, reportVars, trackVars, captureVars >>

\* Every window the caller holds is painted, the filtered-out ones included
CreateWindowBitmapAllLayers ==
    /\ pc = "create_bitmap"
    /\ \/ /\ displays = << >>
          /\ pc' = "error"
          /\ err' = "ValueError"
          /\ UNCHANGED bitmap
       \/ /\ displays # << >>
          /\ bitmap' = WindowBitmap(all_windows, displays)
          /\ pc' = "count"
          /\ UNCHANGED err
       \/ /\ displays # << >>
          /\ Overflows(all_windows)
          /\ pc' = "error"
          /\ err' = "OverflowError"
          /\ UNCHANGED bitmap
    /\ UNCHANGED << displays, windows, counts >>
    /\ UNCHANGED << callVars, reportVars, trackVars, captureVars >>

\* add_visibility_pct, call of create_window_bitmap. min() of an empty
\* display list raises ValueError. An id that does not fit a uint16 cell
\* is stored modulo 2^16 (NumPy 1.x) or raises OverflowError (NumPy 2.x).
CreateWindowBitmap ==
    /\ pc = "create_bitmap"
    /\ \/ /\ displays = << >>
          /\ pc' = "error"
          /\ err' = "ValueError"
          /\ UNCHANGED bitmap
       \/ /\ displays # << >>
          /\ bitmap' = WindowBitmap(windows, displays)
          /\ pc' = "count"
          /\ UNCHANGED err
       \/ /\ displays # << >>
          /\ Overflows(windows)
          /\ pc' = "error"
          /\ err' = "OverflowError"
          /\ UNCHANGED bitmap
    /\ UNCHANGED << displays, windows, counts >>
    /\ UNCHANGED << callVars, reportVars, trackVars, captureVars >>

\* max(w["window_id"] for w in windows) raises ValueError on an empty list
CountWindowIds ==
    /\ pc = "count"
    /\ IF windows = << >>
       THEN /\ pc' = "error"
            /\ err' = "ValueError"
            /\ UNCHANGED counts
       ELSE /\ counts' = CountIds(bitmap)
            /\ pc' = "update"
            /\ UNCHANGED err
    /\ UNCHANGED << displays, windows, bitmap >>
    /\ UNCHANGED << callVars, reportVars, trackVars, captureVars >>

\* The caller's list left in painting order (a sort in place)
UpdateWindowsSorted ==
    /\ pc = "update"
    /\ windows' = [i \in 1..Len(windows) |->
                      UpdateWindow(SortWindows(windows)[i], counts)]
    /\ pc' = IF save_path = NoPath THEN "done" ELSE "save"
    /\ UNCHANGED << displays, bitmap, counts, err >>
    /\ UNCHANGED << callVars, reportVars, trackVars, captureVars >>

\* every record gets visible_pixels and visible_percent; the image is
\* rendered and saved next when a save_path is given
UpdateWindows ==
    /\ pc = "update"
    /\ windows' = [i \in 1..Len(windows) |-> UpdateWindow(windows[i], counts)]
    /\ pc' = IF save_path = NoPath THEN "done" ELSE "save"
    /\ UNCHANGED << displays, bitmap, counts, err >>
    /\ UNCHANGED << callVars, reportVars, trackVars, captureVars >>

Next ==
    \/ CreateWindowBitmap
    \/ CountWindowIds
    \/ UpdateWindows

Spec == Init /\ [][Next]_vars

\* ------------------------------------------------------------------------
\* A second call with the records the first call processed
\* ------------------------------------------------------------------------
\* Displays of the specifications that follow a call further
CallDisplayLists == { << Disp(0, 0, 3, 3) >>, << Disp(1, 1, 2, 2) >> }

InitRerun ==
    /\ displays \in CallDisplayLists
    /\ windows \in WindowLists
    /\ bitmap = NoBitmap
    /\ counts = NoCounts
    /\ pc = "create_bitmap"
    /\ err = "none"
    /\ save_path = NoPath
    /\ first = NoFirst
    /\ layer_filter = NoFilter
    /\ all_windows = windows
    /\ ReportIdle
    /\ TrackIdle
    /\ CaptureIdle

\* The caller calls add_visibility_pct again with the same list of dicts
\* and the same displays; bitmap and counts are locals of the new call
Rerun ==
    /\ pc = "done"
    /\ first = NoFirst
    /\ first' = [called |-> TRUE, windows |-> windows]
    /\ pc' = "create_bitmap"
    /\ bitmap' = NoBitmap
    /\ counts' = NoCounts
    /\ UNCHANGED << displays, windows, err, save_path, layer_filter, all_windows >>
    /\ UNCHANGED << reportVars, trackVars, captureVars >>

NextRerun ==
    \/ CreateWindowBitmap
    \/ CountWindowIds
    \/ UpdateWindows
    \/ Rerun

SpecRerun == InitRerun /\ [][NextRerun]_vars

\* ------------------------------------------------------------------------
\* Geometry the properties are stated in (independent of the slicing)
\* ------------------------------------------------------------------------
Pct0 == << 0, 1 >>
Pct100 == << 100, 1 >>

Canvas(ds) == (0..(CanvasHeight(ds) - 1)) \X (0..(CanvasWidth(ds) - 1))

\* The window's rectangle in canvas-local coordinates, clipped to the canvas
ClippedCells(w, ds) ==
    { c \in Canvas(ds) :
        /\ w.y - MinY(ds) <= c[1] /\ c[1] < w.y - MinY(ds) + w.height
        /\ w.x - MinX(ds) <= c[2] /\ c[2] < w.x - MinX(ds) + w.width }

InsideCanvas(w, ds) ==
    /\ w.x - MinX(ds) >= 0
    /\ w.y - MinY(ds) >= 0
    /\ w.x - MinX(ds) + w.width <= CanvasWidth(ds)
    /\ w.y - MinY(ds) + w.height <= CanvasHeight(ds)

\* Unit squares <<y, x>> of a rectangle in the shared coordinate space
RectPoints(x, y, w, h) == (y..(y + h - 1)) \X (x..(x + w - 1))

WindowPoints(w) == RectPoints(w.x, w.y, w.width, w.height)

DisplayPoints(ds) ==
    UNION { RectPoints(ds[i].x, ds[i].y, ds[i].width, ds[i].height) : i \in 1..Len(ds) }

\* windows[j] is painted after windows[i]: later in (layer, stack_order)
\* order, input order deciding ties
PaintedAfter(ws, i, j) ==
    \/ ws[i].layer < ws[j].layer
    \/ ws[i].layer = ws[j].layer /\ ws[i].stack_order < ws[j].stack_order
    \/ ws[i].layer = ws[j].layer /\ ws[i].stack_order = ws[j].stack_order /\ i < j

Ended == pc \in {"done", "error"}

CellsHolding(bm, v) == { c \in DOMAIN bm : bm[c] = v }

RECURSIVE SumPixels(_)
SumPixels(ws) ==
    IF ws = << >> THEN 0 ELSE Head(ws).visible_pixels + SumPixels(Tail(ws))

\* ------------------------------------------------------------------------
\* Properties
\* ------------------------------------------------------------------------

\* C1: of two windows of non-zero area inside the canvas, with no other
\* window present, the one painted later gets 100 percent and the other
\* gets 100 x (its area - the area of the intersection) / its area.
C1_TwoWindowOcclusion ==
    (Ended /\ displays # << >> /\ Len(windows) = 2) =>
        \A a, b \in 1..2 :
            ( /\ a # b
              /\ PaintedAfter(windows, a, b)
              /\ WindowArea(windows[a]) > 0 /\ WindowArea(windows[b]) > 0
              /\ InsideCanvas(windows[a], displays)
              /\ InsideCanvas(windows[b], displays) )
            => /\ pc = "done"
               /\ windows[b].visible_percent = Pct100
               /\ windows[a].visible_percent =
                      Percent(WindowArea(windows[a])
                                - Cardinality(ClippedCells(windows[a], displays)
                                                \cap ClippedCells(windows[b], displays)),
                              WindowArea(windows[a]))

\* C2: where a window of a strictly higher layer and a window of a lower
\* layer share cells of the canvas, the finished bitmap holds in each such
\* cell the id of the higher-layer window or of a window painted after it.
C2_LayerDominance ==
    (pc = "done") =>
        \A lo, hi \in 1..Len(windows) :
            windows[lo].layer < windows[hi].layer =>
                \A c \in ClippedCells(windows[lo], displays)
                           \cap ClippedCells(windows[hi], displays) :
                    \E k \in 1..Len(windows) :
                        /\ k = hi \/ PaintedAfter(windows, hi, k)
                        /\ bitmap[c] = windows[k].window_id

\* C3: a window of non-zero area whose rectangle meets no display paints
\* no cell and gets 0 percent.
C3_OutsideDisplaysZero ==
    (pc = "done") =>
        \A i \in 1..Len(windows) :
            ( /\ WindowArea(windows[i]) > 0
              /\ WindowPoints(windows[i]) \cap DisplayPoints(displays) = {} )
            => /\ windows[i].visible_percent = Pct0
               /\ CellsHolding(bitmap, windows[i].window_id) = {}

\* C4: a window of non-zero area that the displays cover and that no
\* window painted after it overlaps gets 100 percent.
C4_UnoccludedFullyVisible ==
    (Ended /\ displays # << >>) =>
        \A i \in 1..Len(windows) :
            ( /\ WindowArea(windows[i]) > 0
              /\ WindowPoints(windows[i]) \subseteq DisplayPoints(displays)
              /\ \A j \in 1..Len(windows) :
                    PaintedAfter(windows, i, j) =>
                        WindowPoints(windows[i]) \cap WindowPoints(windows[j]) = {} )
            => /\ pc = "done"
               /\ windows[i].visible_percent = Pct100

\* C5: the counted pixels of all windows add up to the number of cells of
\* the finished bitmap that are not background.
C5_PixelsSumToNonBackground ==
    (pc = "done") =>
        SumPixels(windows) = Cardinality({ c \in DOMAIN bitmap : bitmap[c] # 0 })

\* C6: a window of zero width or zero height ends with 0 pixels and
\* 0 percent.
C6_DegenerateWindowZero ==
    (pc = "done") =>
        \A i \in 1..Len(windows) :
            WindowArea(windows[i]) = 0 =>
                /\ windows[i].visible_pixels = 0
                /\ windows[i].visible_percent = Pct0

\* C7: the percentage of every window of non-zero area is 100 x (cells of
\* the finished bitmap holding its id) / (width x height), the full nominal
\* area: as fractions, num / den = 100 x cells / (width x height).
C7_PercentOfNominalArea ==
    (pc = "done") =>
        \A i \in 1..Len(windows) :
            windows[i].width * windows[i].height > 0 =>
                /\ windows[i].visible_percent # AbsentPercent
                /\ windows[i].visible_percent[1] * windows[i].width * windows[i].height
                     = 100 * Cardinality(CellsHolding(bitmap, windows[i].window_id))
                           * windows[i].visible_percent[2]

\* A single window that hangs over the edge of the canvas and is charged
\* for the part that is off the canvas: half of it is visible.
C7_Witness ==
    /\ pc = "done"
    /\ Len(windows) = 1
    /\ ~InsideCanvas(windows[1], displays)
    /\ windows[1].visible_percent = << 50, 1 >>

\* C8: after the computation every window has a percentage, and it lies
\* in [0, 100].
C8_PercentInRange ==
    (pc = "done") =>
        \A i \in 1..Len(windows) :
            /\ windows[i].visible_percent # AbsentPercent
            /\ windows[i].visible_percent[1] >= 0
            /\ windows[i].visible_percent[1] <= 100 * windows[i].visible_percent[2]

\* C9: with an empty display list the computation fails before a bitmap
\* exists and before any window record is written.
C9_EmptyDisplaysFail ==
    (displays = << >> /\ pc # "create_bitmap") =>
        /\ pc = "error"
        /\ err = "ValueError"
        /\ bitmap = NoBitmap
        /\ \A i \in 1..Len(windows) :
              /\ windows[i].visible_pixels = Absent
              /\ windows[i].visible_percent = AbsentPercent

C9_Witness ==
    /\ displays = << >>
    /\ Len(windows) > 0
    /\ pc = "error"

\* C10: displays that give a canvas of zero width or zero height make the
\* computation fail; no visibility value is written.
C10_DegenerateCanvasFails ==
    ( /\ displays # << >>
      /\ CanvasWidth(displays) = 0 \/ CanvasHeight(displays) = 0 ) =>
        /\ pc # "done"
        /\ \A i \in 1..Len(windows) : windows[i].visible_percent = AbsentPercent

\* C11: with a non-empty display list and a canvas of positive width and
\* height the computation does not raise, whatever the window list is.
C11_FailsOnlyOnDisplays ==
    ( /\ displays # << >>
      /\ CanvasWidth(displays) > 0
      /\ CanvasHeight(displays) > 0 ) => pc # "error"

\* C12: a second call on the records of the first call, with the same
\* displays, ends with the same visible_pixels and visible_percent in
\* every record.
C12_Idempotent ==
    (first.called /\ pc = "done") =>
        /\ Len(windows) = Len(first.windows)
        /\ \A i \in 1..Len(windows) :
              /\ windows[i].visible_pixels = first.windows[i].visible_pixels
              /\ windows[i].visible_percent = first.windows[i].visible_percent

\* The second call has ended and one window is partly hidden by the other
C12_Witness ==
    /\ first.called
    /\ pc = "done"
    /\ Len(windows) = 2
    /\ windows[1].visible_percent = << 75, 1 >>
    /\ windows[2].visible_percent = Pct100

\* ------------------------------------------------------------------------
\* A call with save_path
\* ------------------------------------------------------------------------
SavePaths == { "bitmap.png" }

InitSave ==
    /\ displays \in CallDisplayLists
    /\ windows \in WindowLists
    /\ bitmap = NoBitmap
    /\ counts = NoCounts
    /\ pc = "create_bitmap"
    /\ err = "none"
    /\ save_path \in SavePaths
    /\ first = NoFirst
    /\ layer_filter = NoFilter
    /\ all_windows = windows
    /\ ReportIdle
    /\ TrackIdle
    /\ CaptureIdle

\* A failure of the save that also drops the fields the update loop wrote
SaveVisualizationDiscard ==
    /\ pc = "save"
    /\ \/ /\ pc' = "done"
          /\ UNCHANGED << windows, err >>
       \/ /\ pc' = "error"
          /\ err' = "SaveError"
          /\ windows' = [i \in 1..Len(windows) |->
                            [windows[i] EXCEPT !.visible_pixels = Absent,
                                               !.visible_percent = AbsentPercent]]
    /\ UNCHANGED << displays, bitmap, counts >>
    /\ UNCHANGED << callVars, reportVars, trackVars, captureVars >>

\* lines 193-202: render_window_bitmap and image.save run after the update
\* loop; either may raise, and the exception leaves add_visibility_pct
\* uncaught.  Nothing here assigns to the window records.
SaveVisualization ==
    /\ pc = "save"
    /\ \/ /\ pc' = "done"
          /\ UNCHANGED err
       \/ /\ pc' = "error"
          /\ err' = "SaveError"
    /\ UNCHANGED << displays, windows, bitmap, counts >>
    /\ UNCHANGED << callVars, reportVars, trackVars, captureVars >>

NextSave ==
    \/ CreateWindowBitmap
    \/ CountWindowIds
    \/ UpdateWindows
    \/ SaveVisualization

SpecSave == InitSave /\ [][NextSave]_vars

\* C13: when rendering or writing the image fails, the caller sees the
\* failure and every record holds the visible_pixels and visible_percent
\* that the call computes from the windows and displays without save_path.
C13_SaveFailureKeepsPercentages ==
    (pc = "error" /\ err = "SaveError") =>
        \A i \in 1..Len(windows) :
            windows[i] =
                UpdateWindow(windows[i], CountIds(WindowBitmap(windows, displays)))

\* The save has failed after a call in which one window hides part of another
C13_Witness ==
    /\ pc = "error"
    /\ err = "SaveError"
    /\ save_path # NoPath
    /\ Len(windows) = 2
    /\ windows[1].visible_percent = << 75, 1 >>
    /\ windows[2].visible_percent = Pct100

\* The fields of a window record that the caller supplies
InputFields(w) ==
    [window_id |-> w.window_id, x |-> w.x, y |-> w.y, width |-> w.width,
     height |-> w.height, layer |-> w.layer, stack_order |-> w.stack_order]

LayerFilters ==
    { NoFilter } \cup { [given |-> TRUE, layers |-> L] : L \in { {0}, {1} } }

FilterDisplayLists == { << Disp(0, 0, 3, 3) >> }

InFilter(w) == layer_filter.given => w.layer \in layer_filter.layers

InitFilter ==
    /\ displays \in FilterDisplayLists
    /\ all_windows \in WindowLists
    /\ layer_filter \in LayerFilters
    /\ windows = << >>
    /\ bitmap = NoBitmap
    /\ counts = NoCounts
    /\ pc = "filter"
    /\ err = "none"
    /\ save_path = NoPath
    /\ first = NoFirst
    /\ ReportIdle
    /\ TrackIdle
    /\ CaptureIdle

\* The list handed to add_visibility_pct holds the windows on the included
\* layers, in their input order
ApplyLayerFilter ==
    /\ pc = "filter"
    /\ windows' = SelectSeq(all_windows, InFilter)
    /\ pc' = "create_bitmap"
    /\ UNCHANGED << displays, bitmap, counts, err >>
    /\ UNCHANGED << callVars, reportVars, trackVars, captureVars >>

NextFilter ==
    \/ ApplyLayerFilter
    \/ CreateWindowBitmap
    \/ CountWindowIds
    \/ UpdateWindows

SpecFilter == InitFilter /\ [][NextFilter]_vars

\* The bitmap exists
Painted == pc \in { "count", "update", "done" }

MaxTimestamp == 3

Timestamps == 1..MaxTimestamp
Classifications == { "coding", "browsing", "email" }

\* A string is a sequence of tokens, "/" being a token of its own; a path
\* is the sequence of its components, each one a string.
BaseDir == << << "time_guardian" >> >>

\* Path / str: the string is split at every "/" and its components follow
\* those of the path
RECURSIVE SplitPath(_)
SplitPath(s) ==
    IF s = << >> THEN << << >> >>
    ELSE LET rest == SplitPath(Tail(s))
         IN  IF Head(s) = "/" THEN << << >> >> \o rest
             ELSE << << Head(s) >> \o Head(rest) >> \o Tail(rest)

PathJoin(dir, s) == dir \o SplitPath(s)

\* str(Path): the components joined by "/"
RECURSIVE PathStr(_)
PathStr(p) ==
    IF Len(p) = 1 THEN p[1]
    ELSE PathStr(SubSeq(p, 1, Len(p) - 1)) \o << "/" >> \o p[Len(p)]

\* str(int)
IntStr(n) == << ToString(n) >>

\* Storage.__init__: analysis_dir = base_dir / "analysis"
AnalysisDir == PathJoin(BaseDir, << "analysis" >>)

\* analysis_dir / f"analysis_{timestamp}.json", timestamp already a string
AnalysisPath(timestampStr) ==
    PathJoin(AnalysisDir, << "analysis_" >> \o timestampStr \o << ".json" >>)

\* glob("*.json"): the files of analysis_dir whose name ends in ".json"
GetAnalysisResults(fs) ==
    { p \in DOMAIN fs :
        /\ Len(p) = Len(AnalysisDir) + 1
        /\ SubSeq(p, 1, Len(AnalysisDir)) = AnalysisDir
        /\ p[Len(p)] # << >>
        /\ p[Len(p)][Len(p[Len(p)])] = ".json" }

\* get_analysis_by_timestamp(file) as generate_report calls it: the
\* argument is a Path returned by get_analysis_results, formatted into the
\* file name with str()
LookupByFile(file) == AnalysisPath(PathStr(file))

\* get_analysis_by_timestamp(timestamp) with an int
LookupByTimestamp(ts) == AnalysisPath(IntStr(ts))

InitReport ==
    /\ VisIdle
    /\ TrackIdle
    /\ CaptureIdle
    /\ files = << >>
    /\ report = NoReport
    /\ rpc = "saving"

\* save_analysis(analysis, timestamp): the file is written, replacing an
\* earlier analysis of the same timestamp
SaveAnalysis ==
    /\ rpc = "saving"
    /\ \E ts \in Timestamps, c \in Classifications :
          files' = (LookupByTimestamp(ts) :> c) @@ files
    /\ UNCHANGED << report, rpc >>
    /\ UNCHANGED << visVars, callVars, trackVars, captureVars >>

\* generate_report(output_path): no file is written when the directory
\* holds no result; else the header, then either "No activities recorded."
\* or one Activity line per result read and the AI summary section.
\* Opening or writing the output may raise OSError.
GenerateReport ==
    /\ rpc = "saving"
    /\ LET analysis_files == GetAnalysisResults(files)
           activities == { files[LookupByFile(file)] :
                             file \in { g \in analysis_files :
                                          LookupByFile(g) \in DOMAIN files } }
       IN  \/ /\ analysis_files = {}
              /\ rpc' = "reported"
              /\ UNCHANGED report
           \/ /\ analysis_files # {}
              /\ rpc' = "reported"
              /\ report' = [exists |-> TRUE,
                            activities |-> activities,
                            no_activities |-> (activities = {}),
                            summary |-> (activities # {})]
           \/ /\ analysis_files # {}
              /\ rpc' = "error"
              /\ UNCHANGED report
    /\ UNCHANGED files
    /\ UNCHANGED << visVars, callVars, trackVars, captureVars >>

NextReport ==
    \/ SaveAnalysis
    \/ GenerateReport

SpecReport == InitReport /\ [][NextReport]_vars

\* C16: a report generated from a Storage holds an Activity line for every
\* analysis result saved into it, followed by the AI summary, and says
\* "No activities recorded." only when nothing was saved.
C16_ReportListsSavedAnalyses ==
    (rpc = "reported") =>
        /\ \A p \in DOMAIN files :
              /\ report.exists
              /\ files[p] \in report.activities
              /\ report.summary
        /\ report.no_activities => DOMAIN files = {}

\* ------------------------------------------------------------------------
\* cli.track
\* ------------------------------------------------------------------------
MaxDuration == 4
MaxInterval == 5

\* The command has not exited
NoStatus == -1

\* --duration not given (None)
NoDuration == -1
Durations == { NoDuration } \cup 1..MaxDuration
Intervals == 1..MaxInterval

\* str(e) of the exception start_tracking raises
Messages == { "Test error", "No space left on device" }

\* What start_tracking does: it returns, or raises KeyboardInterrupt, or
\* raises an Exception with a message
Outcomes ==
    { [kind |-> "returns", message |-> ""],
      [kind |-> "KeyboardInterrupt", message |-> ""] }
    \cup { [kind |-> "Exception", message |-> m] : m \in Messages }

InitTrack ==
    /\ VisIdle
    /\ ReportIdle
    /\ CaptureIdle
    /\ duration \in Durations
    /\ interval \in Intervals
    /\ outcome = [kind |-> "none", message |-> ""]
    /\ exit_status = NoStatus
    /\ stdout = << >>
    /\ tpc = "start"

\* lines 40-44: the two lines printed before start_tracking is called
Banner ==
    << IF duration = NoDuration
         THEN << "Starting screen tracking ", "forever", " (press Ctrl+C to stop)..." >>
         ELSE << "Starting screen tracking for ", ToString(duration), " minutes..." >>,
       << "Taking screenshots every ", ToString(interval), " seconds" >> >>

\* Every Exception is reported and the command still exits with status 0
TrackExitZero ==
    /\ tpc = "start"
    /\ \E o \in Outcomes :
          /\ outcome' = o
          /\ stdout' =
                IF o.kind = "KeyboardInterrupt"
                  THEN Append(Banner, << "Tracking interrupted by user" >>)
                ELSE IF o.kind = "Exception"
                  THEN Append(Banner, << "Error: ", o.message >>)
                ELSE Banner
          /\ exit_status' = 0
    /\ tpc' = "exited"
    /\ UNCHANGED << duration, interval >>
    /\ UNCHANGED << visVars, callVars, reportVars, captureVars >>

\* track(duration, interval): the banner, the call of start_tracking, and
\* the two except clauses; a normal return ends the command with status 0
Track ==
    /\ tpc = "start"
    /\ \E o \in Outcomes :
          /\ outcome' = o
          /\ stdout' =
                IF o.kind = "KeyboardInterrupt"
                  THEN Append(Banner, << "Tracking interrupted by user" >>)
                ELSE IF o.kind = "Exception"
                  THEN Append(Banner, << "Error: ", o.message >>)
                ELSE Banner
          /\ exit_status' = IF o.kind = "Exception" THEN 1 ELSE 0
    /\ tpc' = "exited"
    /\ UNCHANGED << duration, interval >>
    /\ UNCHANGED << visVars, callVars, reportVars, captureVars >>

NextTrack == Track

SpecTrack == InitTrack /\ [][NextTrack]_vars

\* A printed line that contains "Error"
ContainsError(line) == \E i \in 1..Len(line) : line[i] = "Error: "

\* C17: when the command has exited, the status is non-zero and a line
\* containing "Error" was printed if start_tracking raised an Exception,
\* and the status is 0 if it raised KeyboardInterrupt or returned.
C17_TrackExitStatus ==
    (tpc = "exited") =>
        /\ outcome.kind = "Exception" =>
              /\ exit_status # 0
              /\ \E i \in 1..Len(stdout) : ContainsError(stdout[i])
        /\ outcome.kind \in { "KeyboardInterrupt", "returns" } => exit_status = 0

\* start_tracking raised an Exception and the command has exited
C17_Witness ==
    /\ tpc = "exited"
    /\ outcome.kind = "Exception"
    /\ exit_status = 1
    /\ stdout[Len(stdout)] = << "Error: ", "Test error" >>

\* C18: the cells a window's paint step writes are exactly the cells of its
\* rectangle, moved by the canvas origin and clipped to the canvas; a
\* window whose clipped rectangle is empty writes nothing.
C18_PaintsClippedRectangle ==
    Painted =>
        \A i \in 1..Len(windows) :
            PaintedCells(windows[i], displays) = ClippedCells(windows[i], displays)

\* C19: of two windows with the same layer and stack_order, the one later
\* in the input list owns every cell of the canvas that both rectangles
\* cover, whichever way round the two are given.
C19_TiesKeepInputOrder ==
    ( /\ Painted
      /\ Len(windows) = 2
      /\ windows[1].layer = windows[2].layer
      /\ windows[1].stack_order = windows[2].stack_order )
    => \A c \in ClippedCells(windows[1], displays)
                  \cap ClippedCells(windows[2], displays) :
           bitmap[c] = windows[2].window_id

\* The windows whose paint step writes cell c
Painters(ws, ds, c) == { i \in 1..Len(ws) : c \in PaintedCells(ws[i], ds) }

\* C20: no id is refused by the grid, and every cell that some window has
\* painted holds the window_id of the window that painted it last, also
\* for ids of 65536 and above.
C20_IdsStoredExactly ==
    /\ err # "OverflowError"
    /\ Painted =>
          \A c \in DOMAIN bitmap :
              \A i \in Painters(windows, displays, c) :
                  (\A j \in Painters(windows, displays, c) :
                       j = i \/ PaintedAfter(windows, j, i))
                  => bitmap[c] = windows[i].window_id

\* ------------------------------------------------------------------------
\* capture.start_tracking
\* ------------------------------------------------------------------------
MaxCaptureDuration == 1
MaxChanged == 2
MaxLate == 2
MaxClock == 45

\* duration * 60 and time.sleep(1)
SecondsPerMinute == 60
SleepSeconds == 1

CaptureDurations == { NoDuration } \cup 1..MaxCaptureDuration
CaptureIntervals == { 20, 30, 60 }

\* time.time() < end_time and time.time() > end_time, end_time possibly inf
Before(now, end) == end = Infinity \/ now < end
After(now, end) == end # Infinity /\ now > end

\* n copies of x
Repeat(n, x) == [i \in 1..n |-> x]

InitCapture ==
    /\ VisIdle
    /\ ReportIdle
    /\ duration \in CaptureDurations
    /\ interval \in CaptureIntervals
    /\ outcome = NoValue
    /\ exit_status = NoValue
    /\ stdout = << >>
    /\ tpc = "idle"
    /\ clock = 0
    /\ end_time = Infinity
    /\ frame_no = 0
    /\ previous_screenshot = NoScreenshot
    /\ jobs = {}
    /\ next_run = NoTime
    /\ stored = << >>
    /\ completed = 0
    /\ logged = NoCount
    /\ wake = NoTime
    /\ cpc = "call"
    /\ cres = "none"

\* Time passes while start_tracking runs.  The clock is followed up to
\* MaxLate seconds past end_time (up to MaxClock when there is no end) and
\* for as long as a sleep is waiting for it.
Tick ==
    /\ cpc \in { "test", "run", "job", "sleep", "sleeping" }
    /\ \/ cpc = "sleeping" /\ clock < wake
       \/ IF end_time = Infinity THEN clock < MaxClock
          ELSE clock < end_time + MaxLate
    /\ clock' = clock + 1
    /\ UNCHANGED << end_time, frame_no, previous_screenshot, jobs, next_run,
                    stored, completed, logged, wake, cpc, cres >>
    /\ UNCHANGED << visVars, callVars, reportVars, trackVars >>

\* lines 116-118 and 200: end_time, the two locals, and the job registered
\* to run every interval seconds, first at now + interval
StartTracking ==
    /\ cpc = "call"
    /\ end_time' = IF duration = NoDuration THEN Infinity
                   ELSE clock + duration * SecondsPerMinute
    /\ frame_no' = 0
    /\ previous_screenshot' = NoScreenshot
    /\ jobs' = { "job" }
    /\ next_run' = clock + interval
    /\ cpc' = "test"
    /\ UNCHANGED << clock, stored, completed, logged, wake, cres >>
    /\ UNCHANGED << visVars, callVars, reportVars, trackVars >>

\* lines 208-210 without the clear: the count is logged and the job stays
\* registered
FinallyKeepJobs(how) ==
    /\ logged' = frame_no
    /\ cpc' = "ended"
    /\ cres' = how
    /\ UNCHANGED jobs

\* lines 206-210: a KeyboardInterrupt is logged and swallowed, any other
\* exception goes on to the caller; either way, and on leaving the loop,
\* schedule.clear() removes every job and the count is logged
Finally(how) ==
    /\ jobs' = {}
    /\ logged' = frame_no
    /\ cpc' = "ended"
    /\ cres' = how

\* line 203: while time.time() < end_time
LoopTest ==
    /\ cpc = "test"
    /\ IF Before(clock, end_time)
         THEN cpc' = "run" /\ UNCHANGED << jobs, logged, cres >>
         ELSE Finally("expired")
    /\ UNCHANGED << clock, end_time, frame_no, previous_screenshot, next_run,
                    stored, completed, wake >>
    /\ UNCHANGED << visVars, callVars, reportVars, trackVars >>

\* A job that captures whenever it is due, without looking at end_time
RunPendingNoEndTest ==
    /\ cpc = "run"
    /\ IF jobs = {} \/ clock < next_run
         THEN cpc' = "sleep"
         ELSE cpc' = "job"
    /\ UNCHANGED << jobs, next_run >>
    /\ UNCHANGED << clock, end_time, frame_no, previous_screenshot, stored,
                    completed, logged, wake, cres >>
    /\ UNCHANGED << visVars, callVars, reportVars, trackVars >>

\* line 204, schedule.run_pending(): a job whose next_run has come is run.
\* The job first compares the time with end_time (line 122): past it, it
\* returns CancelJob and the scheduler, having set the next run, removes
\* the job.
RunPending ==
    /\ cpc = "run"
    /\ IF jobs = {} \/ clock < next_run
         THEN cpc' = "sleep" /\ UNCHANGED << jobs, next_run >>
         ELSE IF After(clock, end_time)
                THEN /\ jobs' = {}
                     /\ next_run' = clock + interval
                     /\ cpc' = "sleep"
                ELSE cpc' = "job" /\ UNCHANGED << jobs, next_run >>
    /\ UNCHANGED << clock, end_time, frame_no, previous_screenshot, stored,
                    completed, logged, wake, cres >>
    /\ UNCHANGED << visVars, callVars, reportVars, trackVars >>

\* The first run stores its screenshot and leaves frame_no as it is
JobRunFirstUncounted ==
    /\ cpc = "job"
    /\ \E n \in 0..MaxChanged :
          LET calls == IF previous_screenshot = NoScreenshot THEN Min2(n, 1) ELSE n
          IN  /\ stored' = stored \o Repeat(calls, frame_no)
              /\ \/ /\ previous_screenshot' = frame_no
                    /\ frame_no' = IF previous_screenshot = NoScreenshot
                                     THEN frame_no ELSE frame_no + 1
                    /\ completed' = completed + 1
                    /\ next_run' = clock + interval
                    /\ cpc' = "sleep"
                    /\ UNCHANGED << jobs, logged, cres >>
                    /\ calls = IF previous_screenshot = NoScreenshot THEN 1 ELSE n
                 \/ /\ \E how \in { "raised", "interrupted" } : Finally(how)
                    /\ UNCHANGED << frame_no, previous_screenshot, completed, next_run >>
    /\ UNCHANGED << clock, end_time, wake >>
    /\ UNCHANGED << visVars, callVars, reportVars, trackVars >>

\* lines 125-198, the rest of a job run.  The first run (lines 133-137)
\* hands the screenshot to storage with the current frame_no; a later run
\* (139-197) hands one window screenshot to storage, with the current
\* frame_no, for each window with more than 1000 changed pixels.  A run
\* that reaches its end sets previous_screenshot and adds 1 to frame_no;
\* the scheduler then sets the next run.  A run may instead raise at any
\* point (an exception of a call it makes, or KeyboardInterrupt), after any
\* number of its storage calls: the exception leaves run_pending and the
\* loop.
JobRun ==
    /\ cpc = "job"
    /\ \E n \in 0..MaxChanged :
          LET calls == IF previous_screenshot = NoScreenshot THEN Min2(n, 1) ELSE n
          IN  /\ stored' = stored \o Repeat(calls, frame_no)
              /\ \/ /\ previous_screenshot' = frame_no
                    /\ frame_no' = frame_no + 1
                    /\ completed' = completed + 1
                    /\ next_run' = clock + interval
                    /\ cpc' = "sleep"
                    /\ UNCHANGED << jobs, logged, cres >>
                    /\ calls = IF previous_screenshot = NoScreenshot THEN 1 ELSE n
                 \/ /\ \E how \in { "raised", "interrupted" } : Finally(how)
                    /\ UNCHANGED << frame_no, previous_screenshot, completed, next_run >>
    /\ UNCHANGED << clock, end_time, wake >>
    /\ UNCHANGED << visVars, callVars, reportVars, trackVars >>

\* line 205, time.sleep(1): the call, and its return once a second has
\* passed.  With no end_time the clock is followed up to MaxClock only.
SleepStart ==
    /\ cpc = "sleep"
    /\ end_time = Infinity => clock < MaxClock
    /\ wake' = clock + SleepSeconds
    /\ cpc' = "sleeping"
    /\ UNCHANGED << clock, end_time, frame_no, previous_screenshot, jobs,
                    next_run, stored, completed, logged, cres >>
    /\ UNCHANGED << visVars, callVars, reportVars, trackVars >>

SleepEnd ==
    /\ cpc = "sleeping"
    /\ clock >= wake
    /\ cpc' = "test"
    /\ UNCHANGED << clock, end_time, frame_no, previous_screenshot, jobs,
                    next_run, stored, completed, logged, wake, cres >>
    /\ UNCHANGED << visVars, callVars, reportVars, trackVars >>

\* Ctrl+C while the loop is testing, polling or sleeping (lines 203-207)
Interrupt ==
    /\ cpc \in { "test", "run", "sleep", "sleeping" }
    /\ Finally("interrupted")
    /\ UNCHANGED << clock, end_time, frame_no, previous_screenshot, next_run,
                    stored, completed, wake >>
    /\ UNCHANGED << visVars, callVars, reportVars, trackVars >>

NextCapture ==
    \/ Tick
    \/ StartTracking
    \/ LoopTest
    \/ RunPending
    \/ JobRun
    \/ SleepStart
    \/ SleepEnd
    \/ Interrupt

SpecCapture == InitCapture /\ [][NextCapture]_vars

\* How many entries of s equal x
Occurrences(s, x) == Cardinality({ i \in 1..Len(s) : s[i] = x })

\* A run of the job returns CancelJob in this step
CancelStep == cpc = "run" /\ jobs # {} /\ jobs' = {} /\ cpc' = "sleep"

C22_JobsClearedAtExit ==
    (cpc = "ended") =>
        /\ jobs = {}
        /\ cres \in { "expired", "interrupted", "raised" }
        /\ logged = frame_no

\* The second run of the job raised and start_tracking has passed the
\* exception on
C22_Witness ==
    /\ cpc = "ended"
    /\ cres = "raised"
    /\ completed = 1
    /\ next_run # NoTime
    /\ jobs = {}

\* The interpreter keeps executing start_tracking, every call it makes
\* comes back, and the clock keeps advancing; Ctrl+C need not happen
LiveSpecCapture ==
    /\ SpecCapture
    /\ WF_vars(Tick)
    /\ WF_vars(StartTracking)
    /\ WF_vars(LoopTest)
    /\ WF_vars(RunPending)
    /\ WF_vars(JobRun)
    /\ WF_vars(SleepStart)
    /\ WF_vars(SleepEnd)

\* C23: with a finite duration start_tracking eventually ends; the loop
\* test that finds the time at or past end_time leaves the loop, and a job
\* that is due when the time is past end_time neither captures nor stores.
C23_FiniteDurationEnds ==
    /\ (cpc = "call" /\ duration # NoDuration) ~> (cpc = "ended")
    /\ [][ /\ (cpc = "test" /\ ~Before(clock, end_time) /\ cpc' # "test")
              => cpc' = "ended"
           /\ (cpc = "run" /\ After(clock, end_time))
              => (cpc' # "job" /\ stored' = stored
                  /\ previous_screenshot' = previous_screenshot) ]_vars

\* The duration has expired: the loop was left at end_time or later, after
\* a job that came due past end_time was cancelled
C23_Witness ==
    /\ cpc = "ended"
    /\ cres = "expired"
    /\ duration # NoDuration
    /\ clock >= end_time
    /\ completed = 2
    /\ next_run > end_time

====
